---------------------------- MODULE Spec2Model ----------------------------
(***************************************************************************)
(* A model of the document search service (app/): the chunker, the         *)
(* ingestion pipeline (routes/documents.py, services/document_service.py), *)
(* the query pipeline (routes/query.py) and the detail lookup.             *)
(*                                                                         *)
(* Texts are sequences of one-character strings, words and chunks too, so  *)
(* that str.split() and " ".join() are computed, not assumed.              *)
(***************************************************************************)
EXTENDS Integers, Sequences, FiniteSets, TLC

(***************************************************************************)
(* Bounds of the model.                                                    *)
(***************************************************************************)
MaxTextLen == 8
MaxChunkSize == 1
MaxOverlap == 2
MaxIngest == 2
MaxQueries == 1
MaxTopK == 2
MaxSkip == 1
MaxLimit == 2
SysChunkSize == 0
SysChunkOverlap == 1

Alphabet == {"a", "b", " "}

Min(a, b) == IF a < b THEN a ELSE b
Max(a, b) == IF a > b THEN a ELSE b

(***************************************************************************)
(* ChunkingService.chunk_text                                              *)
(***************************************************************************)
IsSpace(c) == c \in {" ", "\n", "\t"}

\* str.split(): the maximal runs of non-whitespace characters, in order.
RECURSIVE SplitFrom(_, _, _, _)
SplitFrom(t, i, acc, cur) ==
    IF i > Len(t)
    THEN IF cur = <<>> THEN acc ELSE Append(acc, cur)
    ELSE IF IsSpace(t[i])
         THEN SplitFrom(t, i + 1, IF cur = <<>> THEN acc ELSE Append(acc, cur), <<>>)
         ELSE SplitFrom(t, i + 1, acc, Append(cur, t[i]))

Split(t) == SplitFrom(t, 1, <<>>, <<>>)

\* " ".join(words)
RECURSIVE Join(_)
Join(ws) ==
    IF ws = <<>> THEN <<>>
    ELSE IF Len(ws) = 1 THEN ws[1]
    ELSE ws[1] \o <<" ">> \o Join(Tail(ws))

\* len(word) // 4
WordLength(w) == Len(w) \div 4

\* A recount after a split that counts the new word only, not the overlap.
SumLengthNewWord(ws) == IF ws = <<>> THEN 0 ELSE WordLength(ws[Len(ws)])

\* sum(len(w) // 4 for w in current_chunk)
RECURSIVE SumLength(_)
SumLength(ws) == IF ws = <<>> THEN 0 ELSE WordLength(Head(ws)) + SumLength(Tail(ws))

\* Python's s[start:] for any integer start.
SliceFrom(s, start) ==
    LET st == IF start < 0 THEN Max(Len(s) + start, 0) ELSE Min(start, Len(s))
    IN  SubSeq(s, st + 1, Len(s))

\* A slip that takes the first words of the closed chunk instead of its last.
OverlapWordsHead(current_chunk, overlap) ==
    IF Len(current_chunk) > overlap
    THEN SubSeq(current_chunk, 1, overlap)
    ELSE current_chunk

\* current_chunk[-overlap:] if len(current_chunk) > overlap else current_chunk
OverlapWords(current_chunk, overlap) ==
    IF Len(current_chunk) > overlap
    THEN SliceFrom(current_chunk, 0 - overlap)
    ELSE current_chunk

\* The for loop of chunk_text, from word i on, and the final flush.
RECURSIVE ChunkLoop(_, _, _, _, _, _, _)
ChunkLoop(words, i, chunks, current_chunk, current_length, chunk_size, overlap) ==
    IF i > Len(words)
    THEN IF current_chunk # <<>> THEN Append(chunks, Join(current_chunk)) ELSE chunks
    ELSE LET word == words[i]
             word_length == WordLength(word)
         IN  IF current_length + word_length > chunk_size /\ current_chunk # <<>>
             THEN LET next_chunk == OverlapWords(current_chunk, overlap) \o <<word>>
                  IN  ChunkLoop(words, i + 1, Append(chunks, Join(current_chunk)),
                                next_chunk, SumLength(next_chunk), chunk_size, overlap)
             ELSE ChunkLoop(words, i + 1, chunks, Append(current_chunk, word),
                            current_length + word_length, chunk_size, overlap)

\* A chunker with a hard limit: a word that cannot fit a chunk is left out.
ChunkTextDropOversized(text, chunk_size, overlap) ==
    ChunkLoop(SelectSeq(Split(text), LAMBDA w : WordLength(w) <= chunk_size),
              1, <<>>, <<>>, 0, chunk_size, overlap)

chunk_text(text, chunk_size, overlap) ==
    ChunkLoop(Split(text), 1, <<>>, <<>>, 0, chunk_size, overlap)

(***************************************************************************)
(* State.                                                                  *)
(***************************************************************************)
VARIABLES
    ct_in,              \* the arguments of a chunk_text call under test
    ct_out,             \* its return value
    ct_pc,              \* "ready" | "done" | "off"
    svc,                \* the direct calls of the remote services under test
    settings,           \* config.Settings, read from the environment at start
    vector_db_service,  \* "absent" (None) | "no_collection" | "ready"
    files,              \* document ids with a file under STORAGE_PATH
    db,                 \* the documents table: a set of Document rows
    index,              \* the Chroma collection: a set of chunk entries
    ing,                \* the upload requests, by request number
    qry,                \* the query requests, by request number
    detail,             \* the response of the last detail lookup
    listing             \* the response of the last listing

ctvars == <<ct_in, ct_out, ct_pc, svc>>
sysvars == <<settings, vector_db_service, files, db, index, ing, qry, detail, listing>>
vars == <<ct_in, ct_out, ct_pc, svc, settings, vector_db_service, files, db, index,
          ing, qry, detail, listing>>

Uploads == 1..MaxIngest
Queries == 1..MaxQueries

S4 == <<"a", "a", "a", "a">>
SampleTexts == {<<" ">>, <<"a">>, S4 \o <<" ">> \o S4}
ContentTypes == {"", "image/png", "text/plain", "application/pdf"}
TopKs == (0 - 1)..(MaxTopK + 1)

\* What a response body or an exception message may contain of the substrings
\* the upload route searches for.
Bodies == SUBSET {"authentication", "401"}

\* What an HTTP call to OpenRouter ends in: a response, or a transport error.
RemoteResults ==
    {[kind |-> "response", status |-> 200, body |-> {}]}
        \cup [kind: {"response"}, status: {401, 500}, body: Bodies]
        \cup {[kind |-> "transport_error", status |-> 0, body |-> {}]}

\* The functions that send requests to OpenRouter, and a call of one of them
\* that has not started: requests counts the HTTP requests it sent.
ServiceFunctions == {"get_embedding", "get_embeddings_batch", "generate_answer"}
NoException == [type |-> "none", marks |-> {}]
IdleCall == [pc |-> "idle", requests |-> 0, error |-> NoException]
ServiceOff == svc = [f \in ServiceFunctions |-> IdleCall]

NoError == [step |-> "none", cause |-> "none"]
IdleUpload == [pc |-> "idle", text |-> <<>>, chunks |-> <<>>, status |-> 0, error |-> NoError]
IdleQuery ==
    [pc |-> "idle", top_k |-> 0, n_results |-> 0, calls |-> <<>>, results |-> <<>>,
     found |-> 0 - 1, status |-> 0, answer |-> "", chunks_used |-> <<>>,
     document_ids |-> <<>>, error |-> NoError]
NoDetail == [document_id |-> 0, found |-> FALSE, fetch |-> "none", status |-> 0,
             extracted_text |-> <<>>, chunk_count |-> 0, chunks |-> <<>>]

NoListing == [status |-> 0, items |-> <<>>]

SystemOff ==
    /\ settings = [OPENROUTER_API_KEY |-> "", MAX_TOP_K |-> 1,
                   CHUNK_SIZE |-> SysChunkSize, CHUNK_OVERLAP |-> SysChunkOverlap]
    /\ vector_db_service = "absent"
    /\ files = {}
    /\ db = {}
    /\ index = {}
    /\ ing = [p \in Uploads |-> IdleUpload]
    /\ qry = [q \in Queries |-> IdleQuery]
    /\ detail = NoDetail
    /\ listing = NoListing

Texts == UNION {[1..n -> Alphabet] : n \in 0..MaxTextLen}

ChunkInit ==
    /\ ct_in \in [text: Texts, chunk_size: 0..MaxChunkSize, overlap: 0..MaxOverlap]
    /\ ct_out = <<>>
    /\ ct_pc = "ready"
    /\ ServiceOff
    /\ SystemOff

CallChunkText ==
    /\ ct_pc = "ready"
    /\ ct_out' = chunk_text(ct_in.text, ct_in.chunk_size, ct_in.overlap)
    /\ ct_pc' = "done"
    /\ UNCHANGED <<ct_in, svc, sysvars>>

ChunkNext == CallChunkText

ChunkSpec == ChunkInit /\ [][ChunkNext]_vars

(***************************************************************************)
(* Claims about chunk_text.                                                *)
(***************************************************************************)
ChunkWords(i) == Split(ct_out[i])

\* The words chunk i+1 keeps after its overlap with chunk i is dropped.
DropOverlap(i) ==
    LET k == Min(ct_in.overlap, Len(ChunkWords(i)))
    IN  SubSeq(ChunkWords(i + 1), k + 1, Len(ChunkWords(i + 1)))

RECURSIVE DeOverlapFrom(_)
DeOverlapFrom(i) ==
    IF i > Len(ct_out) THEN <<>>
    ELSE (IF i = 1 THEN ChunkWords(1) ELSE DropOverlap(i - 1)) \o DeOverlapFrom(i + 1)

\* C1: for a text with at least one word and overlap >= 0, the de-overlapped
\* chunks, concatenated in order, are exactly the words of the input.
C1_Reconstructs ==
    (ct_pc = "done" /\ Split(ct_in.text) # <<>> /\ ct_in.overlap >= 0)
        => DeOverlapFrom(1) = Split(ct_in.text)

\* C2: the first min(overlap, n_i) words of chunk i+1 are the last
\* min(overlap, n_i) words of chunk i, for every pair of consecutive chunks.
C2_OverlapRule ==
    ct_pc = "done" =>
        \A i \in 1..(Len(ct_out) - 1) :
            LET n == Len(ChunkWords(i))
                k == Min(ct_in.overlap, n)
            IN  /\ Len(ChunkWords(i + 1)) >= k
                /\ SubSeq(ChunkWords(i + 1), 1, k) = SubSeq(ChunkWords(i), n - k + 1, n)

\* A run with three chunks where a closed chunk has more words than the overlap
\* and the two ends of that chunk differ.
C2_Witness ==
    /\ ct_pc = "done"
    /\ ct_in.overlap = 1
    /\ Len(ct_out) >= 3
    /\ \E i \in 1..(Len(ct_out) - 1) :
          /\ Len(ChunkWords(i)) > ct_in.overlap
          /\ ChunkWords(i)[1] # ChunkWords(i)[Len(ChunkWords(i))]

\* The words of all chunks of the output.
OutputWords == UNION {{ChunkWords(i)[j] : j \in 1..Len(ChunkWords(i))} : i \in 1..Len(ct_out)}
InputWords == {Split(ct_in.text)[j] : j \in 1..Len(Split(ct_in.text))}

\* C12: chunk_text returns no chunk exactly when the text has no word; with a
\* word it returns chunks of at least one word each, and every word of the
\* text, one whose cost alone exceeds chunk_size included, is in a chunk whole.
C12_EmptyIffNoWord ==
    ct_pc = "done" =>
        /\ (ct_out = <<>>) <=> (Split(ct_in.text) = <<>>)
        /\ \A i \in 1..Len(ct_out) : ChunkWords(i) # <<>>
        /\ InputWords \subseteq OutputWords
        /\ OutputWords \subseteq InputWords

\* A word costing more than chunk_size, after another word, came out whole.
C12_Witness ==
    /\ ct_pc = "done"
    /\ Len(Split(ct_in.text)) = 2
    /\ WordLength(Split(ct_in.text)[1]) = 0
    /\ WordLength(Split(ct_in.text)[2]) > ct_in.chunk_size
    /\ Len(ct_out) = 2
    /\ Split(ct_in.text)[2] \in OutputWords

\* The approximate cost of a chunk: the sum of len(word) // 4 over its words.
RECURSIVE CostOf(_)
CostOf(ws) == IF ws = <<>> THEN 0 ELSE (Len(Head(ws)) \div 4) + CostOf(Tail(ws))

\* The number of words chunk i starts with: the first word of the text, or the
\* overlap taken from chunk i-1 and the word that closed it.
StartLen(i) ==
    IF i = 1 THEN 1 ELSE Min(ct_in.overlap, Len(ChunkWords(i - 1))) + 1

\* C17: for overlap >= 1, a chunk whose cost exceeds chunk_size has at most
\* overlap + 1 words, the words it started with, and a chunk that was appended
\* to after its start costs at most chunk_size.
C17_SoftOnlyAtStart ==
    (ct_pc = "done" /\ ct_in.overlap >= 1) =>
        \A i \in 1..Len(ct_out) :
            /\ CostOf(ChunkWords(i)) > ct_in.chunk_size =>
                  /\ Len(ChunkWords(i)) <= ct_in.overlap + 1
                  /\ Len(ChunkWords(i)) = StartLen(i)
            /\ Len(ChunkWords(i)) > StartLen(i) =>
                  CostOf(ChunkWords(i)) <= ct_in.chunk_size

\* A chunk grown by an append within the size, then a chunk that starts over
\* the size with the overlap and the word that closed the first.
C17_Witness ==
    /\ ct_pc = "done"
    /\ ct_in.overlap = 1
    /\ Len(ct_out) = 2
    /\ Len(ChunkWords(1)) = 2
    /\ CostOf(ChunkWords(1)) <= ct_in.chunk_size
    /\ Len(ChunkWords(2)) = 2
    /\ CostOf(ChunkWords(2)) > ct_in.chunk_size

(***************************************************************************)
(* Exceptions and what the routes make of them.  An exception is its type  *)
(* and the searched-for substrings its message contains.                   *)
(***************************************************************************)
ValueError(marks) == [type |-> "ValueError", marks |-> marks]
Exception(marks) == [type |-> "Exception", marks |-> marks]

\* "OPENROUTER_API_KEY is not set. Please set it in your environment variables."
KeyNotSet == ValueError({"OPENROUTER_API_KEY"})
\* f"Embedding API error: {response.text}"
EmbeddingApiError(body) == Exception(body)
\* "Vector database not initialized"
NotInitialized == Exception({})
\* f"OpenRouter API authentication failed: {error_msg}. Please check your OPENROUTER_API_KEY."
LlmAuthFailed(body) == ValueError({"authentication", "OPENROUTER_API_KEY"} \cup body)
\* f"LLM API error (status {response.status_code}): {response.text}"
LlmApiError(body) == Exception(body)

\* A service function that sends its request whatever the settings hold.
SendsUnchecked == TRUE

\* "if not settings.OPENROUTER_API_KEY: raise ValueError(...)", the first
\* statement of each function: whether a call gets as far as its request.
get_embedding_sends == settings.OPENROUTER_API_KEY # ""
get_embeddings_batch_sends == settings.OPENROUTER_API_KEY # ""
generate_answer_sends == settings.OPENROUTER_API_KEY # ""

Sends(f) ==
    CASE f = "get_embedding" -> get_embedding_sends
      [] f = "get_embeddings_batch" -> get_embeddings_batch_sends
      [] f = "generate_answer" -> generate_answer_sends

\* The except clauses of upload_document.
UploadStatus(exc) ==
    IF exc.type = "ValueError"
    THEN IF "OPENROUTER_API_KEY" \in exc.marks \/ "authentication" \in exc.marks
         THEN 401 ELSE 400
    ELSE IF "authentication" \in exc.marks \/ "401" \in exc.marks
         THEN 401 ELSE 500

\* The except clause of query_documents.
QueryStatus(exc) == 500

\* What a failed call to OpenRouter was caused by.
RemoteCause(r) ==
    IF r.kind = "response" /\ r.status = 401 THEN "rejected_credential" ELSE "upstream"

(***************************************************************************)
(* Ingestion: upload_document and DocumentService.create_document.         *)
(* The document id of upload p is p: uuid4 gives every upload its own.     *)
(***************************************************************************)
RECURSIVE LStrip(_)
LStrip(t) == IF t # <<>> /\ IsSpace(Head(t)) THEN LStrip(Tail(t)) ELSE t
RECURSIVE RStrip(_)
RStrip(t) == IF t # <<>> /\ IsSpace(t[Len(t)]) THEN RStrip(SubSeq(t, 1, Len(t) - 1)) ELSE t
\* str.strip()
Strip(t) == RStrip(LStrip(t))

\* f"{document_id}_chunk_{i}"
ChunkId(document_id, i) == <<document_id, "_chunk_", i>>

\* The entries create_document hands to add_documents: chunk i of the list
\* (from 0) under ChunkId(document_id, i).
ChunkEntries(document_id, chunks) ==
    {[id |-> ChunkId(document_id, i), document_id |-> document_id,
      chunk_index |-> i, text |-> chunks[i + 1]] : i \in 0..(Len(chunks) - 1)}

UploadFailed(p, exc, step, cause) ==
    ing' = [ing EXCEPT ![p] = [pc |-> "done", text |-> <<>>, chunks |-> <<>>,
                               status |-> UploadStatus(exc),
                               error |-> [step |-> step, cause |-> cause]]]

\* upload_document, lines 36-59: the request is refused before create_document.
UploadRejected(p) ==
    /\ ing[p].pc = "idle"
    /\ \E reason \in {"no_content_type", "unsupported_type", "too_large"} :
          ing' = [ing EXCEPT ![p] = [pc |-> "done", text |-> <<>>, chunks |-> <<>>,
                                     status |-> 400,
                                     error |-> [step |-> "validation", cause |-> reason]]]
    /\ UNCHANGED <<ctvars, settings, vector_db_service, files, db, index, qry, detail, listing>>

\* create_document up to the embedding request: the file is written, the text
\* extracted and chunked, and the batch request sent unless the key is missing.
CreateDocumentStart(p) ==
    /\ ing[p].pc = "idle"
    /\ files' = files \cup {p}
    /\ \E file_type \in {"text/plain", "application/pdf"}, extracted \in BOOLEAN,
          extracted_text \in SampleTexts :
          IF ~extracted
          THEN \* UnicodeDecodeError is a ValueError; the PDF reader's are not
               UploadFailed(p, IF file_type = "text/plain" THEN ValueError({}) ELSE Exception({}),
                            "extract", "extraction")
          ELSE IF Strip(extracted_text) = <<>>
          THEN UploadFailed(p, ValueError({}), "extract", "no_text")
          ELSE LET chunks == chunk_text(extracted_text, settings.CHUNK_SIZE,
                                        settings.CHUNK_OVERLAP)
               IN  IF chunks = <<>>
                   THEN UploadFailed(p, ValueError({}), "chunk", "no_chunks")
                   ELSE IF ~get_embeddings_batch_sends
                   THEN UploadFailed(p, KeyNotSet, "embed", "missing_credential")
                   ELSE ing' = [ing EXCEPT ![p] = [pc |-> "embedding",
                                                   text |-> extracted_text,
                                                   chunks |-> chunks, status |-> 0,
                                                   error |-> NoError]]
    /\ UNCHANGED <<ctvars, settings, vector_db_service, db, index, qry, detail, listing>>

\* get_embeddings_batch returns or raises.
EmbeddingsBatchReturn(p) ==
    /\ ing[p].pc = "embedding"
    /\ \E r \in RemoteResults :
          IF r.kind = "response" /\ r.status = 200
          THEN ing' = [ing EXCEPT ![p].pc = "upsert"]
          ELSE UploadFailed(p, EmbeddingApiError(r.body), "embed", RemoteCause(r))
    /\ UNCHANGED <<ctvars, settings, vector_db_service, files, db, index, qry, detail, listing>>

\* A create_document that commits the row before it stores the chunks.
StoreInVectorDBAfterCommit(p) ==
    /\ ing[p].pc = "upsert"
    /\ db' = db \cup {[document_id |-> p, extracted_text |-> ing[p].text,
                       chunk_count |-> Len(ing[p].chunks)]}
    /\ \/ /\ vector_db_service = "absent"
          /\ ing' = [ing EXCEPT ![p].pc = "commit"]
          /\ UNCHANGED index
       \/ /\ vector_db_service = "no_collection"
          /\ UploadFailed(p, NotInitialized, "index", "index_unavailable")
          /\ UNCHANGED index
       \/ /\ vector_db_service = "ready"
          /\ index' = index \cup ChunkEntries(p, ing[p].chunks)
          /\ ing' = [ing EXCEPT ![p].pc = "commit"]
       \/ /\ vector_db_service = "ready"
          /\ UploadFailed(p, Exception({}), "index", "index_error")
          /\ UNCHANGED index
    /\ UNCHANGED <<ctvars, settings, vector_db_service, files, qry, detail, listing>>

\* A create_document that stores its chunks one call at a time, in order, and
\* lets other requests run between the calls.
StoreInVectorDBPerChunk(p) ==
    /\ ing[p].pc = "upsert"
    /\ \/ /\ vector_db_service = "absent"
          /\ ing' = [ing EXCEPT ![p].pc = "commit"]
          /\ UNCHANGED index
       \/ /\ vector_db_service = "no_collection"
          /\ UploadFailed(p, NotInitialized, "index", "index_unavailable")
          /\ UNCHANGED index
       \/ /\ vector_db_service = "ready"
          /\ LET missing == ChunkEntries(p, ing[p].chunks) \ index
                 next == CHOOSE c \in missing :
                            \A d \in missing : c.chunk_index <= d.chunk_index
             IN  /\ index' = index \cup {next}
                 /\ ing' = IF Cardinality(missing) = 1
                           THEN [ing EXCEPT ![p].pc = "commit"] ELSE ing
       \/ /\ vector_db_service = "ready"
          /\ UploadFailed(p, Exception({}), "index", "index_error")
          /\ UNCHANGED index
    /\ UNCHANGED <<ctvars, settings, vector_db_service, files, db, qry, detail, listing>>

\* create_document, lines 82-90: "if vector_db_service:" add_documents(...).
StoreInVectorDB(p) ==
    /\ ing[p].pc = "upsert"
    /\ \/ /\ vector_db_service = "absent"
          /\ ing' = [ing EXCEPT ![p].pc = "commit"]
          /\ UNCHANGED index
       \/ /\ vector_db_service = "no_collection"
          /\ UploadFailed(p, NotInitialized, "index", "index_unavailable")
          /\ UNCHANGED index
       \/ /\ vector_db_service = "ready"
          /\ index' = index \cup ChunkEntries(p, ing[p].chunks)
          /\ ing' = [ing EXCEPT ![p].pc = "commit"]
       \/ /\ vector_db_service = "ready"
          /\ UploadFailed(p, Exception({}), "index", "index_error")
          /\ UNCHANGED index
    /\ UNCHANGED <<ctvars, settings, vector_db_service, files, db, qry, detail, listing>>

\* create_document, lines 92-105: the row is added and committed, or the commit raises.
CommitDocument(p) ==
    /\ ing[p].pc = "commit"
    /\ \/ /\ db' = db \cup {[document_id |-> p, extracted_text |-> ing[p].text,
                             chunk_count |-> Len(ing[p].chunks)]}
          /\ ing' = [ing EXCEPT ![p] = [pc |-> "done", text |-> <<>>, chunks |-> <<>>,
                                        status |-> 201, error |-> NoError]]
       \/ /\ UploadFailed(p, Exception({}), "db", "db_error")
          /\ UNCHANGED db
    /\ UNCHANGED <<ctvars, settings, vector_db_service, files, index, qry, detail, listing>>

(***************************************************************************)
(* The vector index (Chroma) as the services use it.                       *)
(***************************************************************************)
InjSeqs(S, k) == {s \in [1..k -> S] : \A i, j \in 1..k : i # j => s[i] # s[j]}

\* collection.query(n_results=n): at most n entries of the collection, each
\* once, in the order of the ranking (any order: the embeddings are not modelled).
QueryResults(n) == UNION {InjSeqs(index, k) : k \in 0..Min(n, Cardinality(index))}

\* collection.get(ids=chunk_ids) for the ids of document_id's chunks 0..n-1:
\* the entries that exist, as {"chunk_id", "text"} pairs.
RECURSIVE GetChunks(_, _, _)
GetChunks(document_id, i, n) ==
    IF i >= n THEN <<>>
    ELSE LET hit == {c \in index : c.id = ChunkId(document_id, i)}
         IN  (IF hit = {} THEN <<>>
              ELSE <<[chunk_id |-> ChunkId(document_id, i),
                      text |-> (CHOOSE c \in hit : TRUE).text]>>)
             \o GetChunks(document_id, i + 1, n)

(***************************************************************************)
(* Query: query_documents, EmbeddingService.get_embedding and              *)
(* RAGService.generate_answer.  calls lists the requests a query sent to   *)
(* the embedding service, the index and the completion service, in order,  *)
(* each with how it ended; found is the number of chunks the index query   *)
(* returned, -1 before it returned.                                        *)
(***************************************************************************)
NoRelevant == "No relevant documents found in the database."

Call(step) == [step |-> step, result |-> "pending"]
Ended(calls, result) == [calls EXCEPT ![Len(calls)].result = result]

\* A clamp that forgets the lower bound.
ClampTopKNoFloor(top_k) == Min(top_k, settings.MAX_TOP_K)

\* top_k = min(max(query_data.top_k, 1), settings.MAX_TOP_K)
ClampTopK(top_k) == Min(Max(top_k, 1), settings.MAX_TOP_K)

\* An except clause that answers with the fallback instead of failing.
QueryFailedDegraded(q, rec, exc, step, cause) ==
    qry' = [qry EXCEPT ![q] = [rec EXCEPT !.pc = "done", !.results = <<>>,
                                          !.status = 200, !.answer = NoRelevant]]

\* An except clause that sends the embedding request again, up to three calls.
QueryFailedRetry(q, rec, exc, step, cause) ==
    IF Len(rec.calls) < 3
    THEN qry' = [qry EXCEPT ![q] = [rec EXCEPT !.pc = "embedding",
                                               !.calls = Append(rec.calls, Call("embed"))]]
    ELSE qry' = [qry EXCEPT ![q] = [rec EXCEPT !.pc = "done", !.results = <<>>,
                                               !.status = 500,
                                               !.error = [step |-> step, cause |-> cause]]]

\* query_documents, lines 90-94: any exception ends the query with a 500
\* whose detail is f"Query failed: {str(e)}".
QueryFailed(q, rec, exc, step, cause) ==
    qry' = [qry EXCEPT ![q] = [rec EXCEPT !.pc = "done", !.results = <<>>,
                                          !.status = QueryStatus(exc),
                                          !.error = [step |-> step, cause |-> cause]]]

\* query_documents up to the embedding request.
QueryStart(q) ==
    /\ qry[q].pc = "idle"
    /\ \E top_k \in TopKs :
          IF vector_db_service = "absent"
          THEN \* "Vector database not available", raised before the try block
               qry' = [qry EXCEPT ![q] = [@ EXCEPT !.pc = "done", !.top_k = top_k,
                                                   !.status = 500,
                                                   !.error = [step |-> "index",
                                                              cause |-> "index_unavailable"]]]
          ELSE LET rec == [qry[q] EXCEPT !.top_k = top_k, !.n_results = ClampTopK(top_k)]
               IN  IF ~get_embedding_sends
                   THEN QueryFailed(q, rec, KeyNotSet, "embed", "missing_credential")
                   ELSE qry' = [qry EXCEPT ![q] = [rec EXCEPT !.pc = "embedding",
                                                              !.calls = <<Call("embed")>>]]
    /\ UNCHANGED <<ctvars, settings, vector_db_service, files, db, index, ing, detail, listing>>

\* A query that sends the completion request whatever the index returned.
AfterSearchNoShortCircuit(q, rec, results) ==
    qry' = [qry EXCEPT ![q] = [rec EXCEPT !.pc = "llm", !.results = results,
                                          !.calls = Append(rec.calls, Call("llm"))]]

\* query_documents, lines 51-83, with the result of the index query: the short
\* circuit, or the completion request.
AfterSearch(q, rec, results) ==
    IF results = <<>>
    THEN qry' = [qry EXCEPT ![q] = [rec EXCEPT !.pc = "done", !.status = 200,
                                               !.answer = NoRelevant,
                                               !.chunks_used = <<>>,
                                               !.document_ids = <<>>]]
    ELSE IF ~generate_answer_sends
    THEN QueryFailed(q, rec, KeyNotSet, "llm", "missing_credential")
    ELSE qry' = [qry EXCEPT ![q] = [rec EXCEPT !.pc = "llm", !.results = results,
                                               !.calls = Append(rec.calls, Call("llm"))]]

\* get_embedding returns or raises; on a vector the index is queried at once.
QueryEmbeddingReturn(q) ==
    /\ qry[q].pc = "embedding"
    /\ \E r \in RemoteResults :
          IF ~(r.kind = "response" /\ r.status = 200)
          THEN QueryFailed(q, [qry[q] EXCEPT !.calls = Ended(@, "failed")],
                           EmbeddingApiError(r.body), "embed", RemoteCause(r))
          ELSE LET sent == Append(Ended(qry[q].calls, "ok"), Call("index"))
                   raised == [qry[q] EXCEPT !.calls = Ended(sent, "failed")]
               IN  IF vector_db_service = "no_collection"
                   THEN QueryFailed(q, raised, NotInitialized, "index", "index_unavailable")
                   ELSE \/ QueryFailed(q, raised, Exception({}), "index", "index_error")
                        \/ \E results \in QueryResults(qry[q].n_results) :
                              AfterSearch(q, [qry[q] EXCEPT !.calls = Ended(sent, "ok"),
                                                            !.found = Len(results)],
                                          results)
    /\ UNCHANGED <<ctvars, settings, vector_db_service, files, db, index, ing, detail, listing>>

\* chunks_used: one ChunkInfo per returned chunk, in the order returned.
ChunksUsed(results) ==
    [i \in 1..Len(results) |-> [chunk_id |-> results[i].id, text |-> results[i].text]]

\* A response that lists the document id of every returned chunk, repeats included.
DocumentIdsPerChunk(results) ==
    {[i \in 1..Len(results) |-> results[i].document_id]}

\* list(set([meta["document_id"] for meta in metadatas])): each id once, in any order.
DocumentIds(results) ==
    LET ids == {results[i].document_id : i \in 1..Len(results)}
    IN  InjSeqs(ids, Cardinality(ids))

\* generate_answer returns or raises, and the response is built.
CompletionReturn(q) ==
    /\ qry[q].pc = "llm"
    /\ \E r \in RemoteResults :
          LET failed == [qry[q] EXCEPT !.calls = Ended(@, "failed")]
          IN  IF r.kind = "response" /\ r.status = 200
              THEN \E document_ids \in DocumentIds(qry[q].results) :
                      qry' = [qry EXCEPT ![q] =
                                [@ EXCEPT !.pc = "done", !.status = 200,
                                          !.calls = Ended(qry[q].calls, "ok"),
                                          !.answer = "llm_answer",
                                          !.chunks_used = ChunksUsed(qry[q].results),
                                          !.document_ids = document_ids]]
              ELSE IF r.kind = "response" /\ r.status = 401
              THEN QueryFailed(q, failed, LlmAuthFailed(r.body), "llm", "rejected_credential")
              ELSE QueryFailed(q, failed, LlmApiError(r.body), "llm", "upstream")
    /\ UNCHANGED <<ctvars, settings, vector_db_service, files, db, index, ing, detail, listing>>

(***************************************************************************)
(* Detail lookup: routes/documents.py get_document.  found and fetch record *)
(* what the lookup met: whether the row existed, and how the chunk fetch   *)
(* ended ("skipped" without a service, "unavailable", "raised" or "ok").   *)
(***************************************************************************)
Fetch(fetch_raises) ==
    IF vector_db_service = "absent" THEN "skipped"
    ELSE IF vector_db_service = "no_collection" THEN "unavailable"
    ELSE IF fetch_raises THEN "raised" ELSE "ok"

\* A lookup that lets the exception of the chunk fetch escape.
DetailResponseRaising(doc, fetch_raises) ==
    [document_id |-> doc.document_id, found |-> TRUE, fetch |-> Fetch(fetch_raises),
     status |-> IF Fetch(fetch_raises) \in {"unavailable", "raised"} THEN 500 ELSE 200,
     extracted_text |-> doc.extracted_text, chunk_count |-> doc.chunk_count,
     chunks |-> IF Fetch(fetch_raises) = "ok"
                THEN GetChunks(doc.document_id, 0, doc.chunk_count) ELSE <<>>]

\* get_document, lines 138-160, for the row doc.
DetailResponse(doc, fetch_raises) ==
    [document_id |-> doc.document_id, found |-> TRUE, fetch |-> Fetch(fetch_raises),
     status |-> 200,
     extracted_text |-> doc.extracted_text, chunk_count |-> doc.chunk_count,
     chunks |-> IF vector_db_service = "absent" THEN <<>>
                ELSE IF vector_db_service = "no_collection" \/ fetch_raises THEN <<>>
                ELSE GetChunks(doc.document_id, 0, doc.chunk_count)]

\* get_document: 404 without a row, the detail response with one.
GetDocument(document_id) ==
    /\ LET rows == {r \in db : r.document_id = document_id}
       IN  IF rows = {}
           THEN detail' = [NoDetail EXCEPT !.document_id = document_id, !.status = 404]
           ELSE \E fetch_raises \in BOOLEAN :
                   detail' = DetailResponse(CHOOSE r \in rows : TRUE, fetch_raises)
    /\ UNCHANGED <<ctvars, settings, vector_db_service, files, db, index, ing, qry, listing>>

(***************************************************************************)
(* Listing: routes/documents.py list_documents.                            *)
(***************************************************************************)
\* DocumentInfo(document_id=..., chunk_count=...) of a row.
DocumentInfo(doc) == [document_id |-> doc.document_id, chunk_count |-> doc.chunk_count]

\* db.query(Document).offset(skip).limit(limit).all() over the rows in the
\* order rows, which the query leaves to the database.
Page(rows, skip, limit) ==
    [i \in 1..Max(0, Min(limit, Len(rows) - skip)) |-> DocumentInfo(rows[skip + i])]

\* list_documents: one page of the committed rows.
ListDocuments ==
    /\ \E skip \in 0..MaxSkip, limit \in 1..MaxLimit, rows \in InjSeqs(db, Cardinality(db)) :
          listing' = [status |-> 200, items |-> Page(rows, skip, limit)]
    /\ UNCHANGED <<ctvars, settings, vector_db_service, files, db, index, ing, qry, detail>>

(***************************************************************************)
(* The service.                                                            *)
(***************************************************************************)
Init ==
    /\ ct_in = [text |-> <<>>, chunk_size |-> 0, overlap |-> 0]
    /\ ct_out = <<>>
    /\ ct_pc = "off"
    /\ ServiceOff
    /\ settings \in [OPENROUTER_API_KEY: {"", "sk"}, MAX_TOP_K: 1..MaxTopK,
                     CHUNK_SIZE: {SysChunkSize}, CHUNK_OVERLAP: {SysChunkOverlap}]
    /\ vector_db_service \in {"absent", "no_collection", "ready"}
    /\ files = {}
    /\ db = {}
    /\ index = {}
    /\ ing = [p \in Uploads |-> IdleUpload]
    /\ qry = [q \in Queries |-> IdleQuery]
    /\ detail = NoDetail
    /\ listing = NoListing

Next ==
    \/ \E p \in Uploads : UploadRejected(p)
    \/ \E p \in Uploads : CreateDocumentStart(p)
    \/ \E p \in Uploads : EmbeddingsBatchReturn(p)
    \/ \E p \in Uploads : StoreInVectorDB(p)
    \/ \E p \in Uploads : CommitDocument(p)
    \/ \E q \in Queries : QueryStart(q)
    \/ \E q \in Queries : QueryEmbeddingReturn(q)
    \/ \E q \in Queries : CompletionReturn(q)
    \/ \E d \in Uploads : GetDocument(d)
    \/ ListDocuments

Spec == Init /\ [][Next]_vars

(***************************************************************************)
(* The remote services called directly: get_embedding, get_embeddings_batch *)
(* and generate_answer, each once, under any settings.                     *)
(***************************************************************************)
\* What a call raises for a response that is not a 200, or a transport error.
ServiceRaises(f, r) ==
    IF f = "generate_answer"
    THEN IF r.kind = "response" /\ r.status = 401
         THEN LlmAuthFailed(r.body) ELSE LlmApiError(r.body)
    ELSE EmbeddingApiError(r.body)

\* The call up to its request: the key check, then client.post(...).
ServiceCall(f) ==
    /\ svc[f].pc = "idle"
    /\ IF Sends(f)
       THEN svc' = [svc EXCEPT ![f] = [pc |-> "sent", requests |-> 1, error |-> NoException]]
       ELSE svc' = [svc EXCEPT ![f] = [pc |-> "raised", requests |-> 0, error |-> KeyNotSet]]
    /\ UNCHANGED <<ct_in, ct_out, ct_pc, sysvars>>

\* The request ends: the call returns on a 200 and raises on anything else.
ServiceReturn(f) ==
    /\ svc[f].pc = "sent"
    /\ \E r \in RemoteResults :
          IF r.kind = "response" /\ r.status = 200
          THEN svc' = [svc EXCEPT ![f].pc = "returned"]
          ELSE svc' = [svc EXCEPT ![f].pc = "raised", ![f].error = ServiceRaises(f, r)]
    /\ UNCHANGED <<ct_in, ct_out, ct_pc, sysvars>>

ServiceInit ==
    /\ ct_in = [text |-> <<>>, chunk_size |-> 0, overlap |-> 0]
    /\ ct_out = <<>>
    /\ ct_pc = "off"
    /\ ServiceOff
    /\ settings \in [OPENROUTER_API_KEY: {"", "sk"}, MAX_TOP_K: 1..MaxTopK,
                     CHUNK_SIZE: {SysChunkSize}, CHUNK_OVERLAP: {SysChunkOverlap}]
    /\ vector_db_service = "absent"
    /\ files = {}
    /\ db = {}
    /\ index = {}
    /\ ing = [p \in Uploads |-> IdleUpload]
    /\ qry = [q \in Queries |-> IdleQuery]
    /\ detail = NoDetail
    /\ listing = NoListing

ServiceNext ==
    \/ \E f \in ServiceFunctions : ServiceCall(f)
    \/ \E f \in ServiceFunctions : ServiceReturn(f)

ServiceSpec == ServiceInit /\ [][ServiceNext]_vars

(***************************************************************************)
(* Claims about the service.                                               *)
(***************************************************************************)
Rows(document_id) == {r \in db : r.document_id = document_id}
Stored(document_id) == {c \in index : c.document_id = document_id}
Steps(calls) == {calls[i].step : i \in 1..Len(calls)}
UploadDone(p) == ing[p].pc = "done"
QueryDone(q) == qry[q].pc = "done"

\* C3: for every document with a metadata row, the ids rebuilt from its
\* chunk_count are exactly the ids stored in the index for it.
C3_IdsMatch ==
    \A doc \in db :
        {ChunkId(doc.document_id, i) : i \in 0..(doc.chunk_count - 1)}
            = {c.id : c \in Stored(doc.document_id)}

\* C4: a query whose index query returned no chunks ends with the fixed
\* answer, empty chunks_used and document_ids, and no completion request.
C4_NoChunksShortCircuit ==
    \A q \in Queries :
        qry[q].found = 0 =>
            /\ QueryDone(q)
            /\ qry[q].status = 200
            /\ qry[q].answer = NoRelevant
            /\ qry[q].chunks_used = <<>>
            /\ qry[q].document_ids = <<>>
            /\ "llm" \notin Steps(qry[q].calls)

\* The index holds chunks, and still returned none to a finished query.
C4_Witness ==
    \E q \in Queries :
        /\ QueryDone(q)
        /\ qry[q].found = 0
        /\ qry[q].calls = <<[step |-> "embed", result |-> "ok"],
                            [step |-> "index", result |-> "ok"]>>

\* C5: whatever top_k is asked for, the index is queried with top_k clamped
\* into [1, MAX_TOP_K], the response has at most MAX_TOP_K chunks, and no query
\* fails for its top_k.
C5_TopKClamped ==
    \A q \in Queries :
        (qry[q].pc # "idle" /\ vector_db_service # "absent") =>
            LET k == qry[q].top_k
                n == qry[q].n_results
            IN  /\ n \in 1..settings.MAX_TOP_K
                /\ (k < 1 => n = 1)
                /\ (k \in 1..settings.MAX_TOP_K => n = k)
                /\ (k > settings.MAX_TOP_K => n = settings.MAX_TOP_K)
                /\ qry[q].found <= n
                /\ Len(qry[q].chunks_used) <= settings.MAX_TOP_K
                /\ qry[q].error.step \in {"none", "embed", "index", "llm"}

\* A top_k above MAX_TOP_K answered with exactly MAX_TOP_K of the index's chunks.
C5_Witness ==
    \E q \in Queries :
        /\ QueryDone(q)
        /\ qry[q].status = 200
        /\ qry[q].top_k > settings.MAX_TOP_K
        /\ Cardinality(index) > settings.MAX_TOP_K
        /\ Len(qry[q].chunks_used) = settings.MAX_TOP_K

\* C6: a failed embedding call, index query or completion call ends the query
\* in a failure with that step's error, no later step is issued and no answer
\* is returned; an answer without a completion call is the short circuit's.
C6_FailureAborts ==
    \A q \in Queries :
        LET calls == qry[q].calls
        IN  /\ \A i \in 1..Len(calls) :
                  calls[i].result = "failed" =>
                      /\ i = Len(calls)
                      /\ QueryDone(q)
                      /\ qry[q].status = 500
                      /\ qry[q].error.step = calls[i].step
                      /\ qry[q].answer = ""
                      /\ qry[q].chunks_used = <<>>
            /\ qry[q].error.step = "embed" => Steps(calls) \subseteq {"embed"}
            /\ qry[q].error.step = "index" => "llm" \notin Steps(calls)
            /\ qry[q].error # NoError => (qry[q].answer = "" /\ qry[q].status = 500)
            /\ (qry[q].answer # "" /\ "llm" \notin Steps(calls)) =>
                  (qry[q].found = 0 /\ qry[q].answer = NoRelevant)

\* The index query of a query failed after its embedding call succeeded.
C6_Witness ==
    \E q \in Queries :
        /\ QueryDone(q)
        /\ qry[q].calls = <<[step |-> "embed", result |-> "ok"],
                            [step |-> "index", result |-> "failed"]>>
        /\ vector_db_service = "ready"

\* C7 as stated: after an upload whose upsert failed, the file and the
\* metadata row both remain.
C7_FileAndRowRemain ==
    \A p \in Uploads :
        (UploadDone(p) /\ ing[p].error.step = "index") =>
            (p \in files /\ Rows(p) # {})

\* C7 amended: after an upload whose upsert failed, the file remains and there
\* is no metadata row for the document.
C7_FileRemainsWithoutRow ==
    \A p \in Uploads :
        (UploadDone(p) /\ ing[p].error.step = "index") =>
            (p \in files /\ Rows(p) = {})

\* An upload failed at the upsert although the index was ready.
C7_Witness ==
    \E p \in Uploads :
        /\ UploadDone(p)
        /\ ing[p].error = [step |-> "index", cause |-> "index_error"]
        /\ p \in files

CredentialCauses == {"missing_credential", "rejected_credential"}

\* C8: on both entrypoints a credential failure is reported with its own
\* status (401), a generic upstream failure with another (500).
C8_CredentialFailureDistinct ==
    /\ \A p \in Uploads :
          UploadDone(p) =>
              /\ ing[p].error.cause \in CredentialCauses => ing[p].status = 401
              /\ ing[p].error.cause = "upstream" => ing[p].status = 500
    /\ \A q \in Queries :
          QueryDone(q) =>
              /\ qry[q].error.cause \in CredentialCauses => qry[q].status = 401
              /\ qry[q].error.cause = "upstream" => qry[q].status = 500

\* An upload got as far as the upsert.
ReachedUpsert(p) ==
    \/ ing[p].pc = "commit"
    \/ UploadDone(p) /\ (ing[p].status = 201 \/ ing[p].error.step \in {"index", "db"})

\* C9: without an initialized index every query fails with index-unavailable
\* before any embedding or completion call, and so does every upsert.
C9_IndexUnavailableFailsFast ==
    vector_db_service # "ready" =>
        /\ \A q \in Queries :
              qry[q].pc # "idle" =>
                  /\ QueryDone(q)
                  /\ qry[q].error.cause = "index_unavailable"
                  /\ qry[q].calls = <<>>
        /\ \A p \in Uploads :
              ReachedUpsert(p) =>
                  (UploadDone(p) /\ ing[p].error.cause = "index_unavailable")

\* C10: a lookup of an id without a row is a 404; a lookup of a document with
\* a row is a 200 with its text and chunk_count, with an empty chunk list when
\* the index is absent, unavailable or the fetch raised.
C10_DetailLookup ==
    detail.status # 0 =>
        IF detail.found
        THEN /\ detail.status = 200
             /\ \E doc \in Rows(detail.document_id) :
                   /\ detail.extracted_text = doc.extracted_text
                   /\ detail.chunk_count = doc.chunk_count
             /\ detail.fetch # "ok" => detail.chunks = <<>>
        ELSE detail.status = 404

\* A document with indexed chunks was looked up and the chunk fetch raised.
C10_Witness ==
    /\ detail.status = 200
    /\ detail.fetch = "raised"
    /\ detail.chunk_count > 0
    /\ Stored(detail.document_id) # {}
    /\ detail.chunks = <<>>


\* What the index returned to a query that answered from chunks.
Answered(q) == QueryDone(q) /\ qry[q].status = 200 /\ qry[q].found > 0

\* C11: a successful query with a non-empty index result lists in chunks_used
\* exactly the returned chunks, in the order returned, and in document_ids each
\* document id of the returned chunks once and no other id.
C11_ChunksAndDocumentIds ==
    \A q \in Queries :
        Answered(q) =>
            LET results == qry[q].results
                used == qry[q].chunks_used
                ids == qry[q].document_ids
            IN  /\ Len(results) = qry[q].found
                /\ Len(used) = Len(results)
                /\ \A i \in 1..Len(results) :
                      /\ used[i].chunk_id = results[i].id
                      /\ used[i].text = results[i].text
                /\ {ids[i] : i \in 1..Len(ids)}
                      = {results[i].document_id : i \in 1..Len(results)}
                /\ \A i, j \in 1..Len(ids) : i # j => ids[i] # ids[j]
                /\ Len(ids) = Cardinality({results[i].document_id : i \in 1..Len(results)})

\* Two chunks of two documents were returned, the later document's first.
C11_Witness ==
    \E q \in Queries :
        /\ Answered(q)
        /\ Len(qry[q].results) = 2
        /\ qry[q].results[1].document_id = 2
        /\ qry[q].results[2].document_id = 1
        /\ Len(qry[q].document_ids) = 2

NoRequestWithoutCredentialInService ==
    settings.OPENROUTER_API_KEY = "" =>
        /\ \A p \in Uploads :
              /\ ing[p].pc \in {"idle", "done"}
              /\ UploadDone(p) => ing[p].error.cause \in
                    {"no_content_type", "unsupported_type", "too_large", "extraction",
                     "no_text", "no_chunks", "missing_credential"}
        /\ \A q \in Queries :
              /\ qry[q].calls = <<>>
              /\ (qry[q].pc # "idle" /\ vector_db_service # "absent") =>
                    qry[q].error = [step |-> "embed", cause |-> "missing_credential"]

\* The only order in which a query calls out.
CallOrder == <<"embed", "index", "llm">>

\* C14: the external calls of a query are a prefix of embedding call, index
\* query, completion call, each issued once and only after the one before it
\* succeeded, the completion call only after the index returned a chunk; an
\* answer from chunks has exactly one successful call of each kind, in order.
C14_SequentialTrace ==
    \A q \in Queries :
        LET calls == qry[q].calls
        IN  /\ Len(calls) <= 3
            /\ \A i \in 1..Len(calls) : calls[i].step = CallOrder[i]
            /\ \A i \in 1..(Len(calls) - 1) : calls[i].result = "ok"
            /\ "llm" \in Steps(calls) => qry[q].found >= 1
            /\ qry[q].found >= 0 => (Len(calls) >= 2 /\ calls[2].result = "ok")
            /\ Answered(q) =>
                  calls = [i \in 1..3 |-> [step |-> CallOrder[i], result |-> "ok"]]

\* A query answered from two chunks after its three calls.
C14_Witness ==
    \E q \in Queries :
        /\ Answered(q)
        /\ qry[q].found = 2
        /\ qry[q].answer = "llm_answer"
        /\ Len(qry[q].calls) = 3

\* The ids <id>_chunk_0 .. <id>_chunk_(n-1).
ChunkIds(document_id, n) == {ChunkId(document_id, i) : i \in 0..(n - 1)}
StoredIds(document_id) == {c.id : c \in Stored(document_id)}

\* The index holds none of the chunks of upload p, or all of them.
NoneOrAll(p) ==
    \/ Stored(p) = {}
    \/ ing[p].pc = "commit" /\ Stored(p) = ChunkEntries(p, ing[p].chunks)
    \/ \E doc \in Rows(p) : StoredIds(p) = ChunkIds(p, doc.chunk_count)
    \/ UploadDone(p) /\ ing[p].error.step = "db"

\* The entries of a document change in one step only, from none to all.
OneBatch ==
    \A p \in Uploads :
        Stored(p)' # Stored(p) =>
            /\ Stored(p) = {}
            /\ ing[p].pc = "upsert"
            /\ StoredIds(p)' = ChunkIds(p, Len(ing[p].chunks))
            /\ \A r \in Uploads \ {p} : Stored(r)' = Stored(r)

\* What a lookup or a query saw of the index is whole documents' worth or,
\* for a query, chunks that are in the index.
WholeObserved ==
    /\ detail.fetch = "ok" => Len(detail.chunks) = detail.chunk_count
    /\ \A q \in Queries :
          \A i \in 1..Len(qry[q].results) : qry[q].results[i] \in index

\* C15: under any interleaving of ingestions, queries and lookups the index
\* holds for each document none of its chunks or all of them, the chunks of a
\* document are written in one step, and no query or detail lookup sees a
\* document with only some of its chunks.
C15_NoneOrAllChunks ==
    /\ [](\A p \in Uploads : NoneOrAll(p))
    /\ [][OneBatch]_vars
    /\ []WholeObserved

\* A two-chunk document is in the index whole while another upload waits for
\* its embeddings and a query has been answered from the index.
C15_Witness ==
    \E p, r \in Uploads, q \in Queries :
        /\ Cardinality(Stored(p)) = 2
        /\ ing[p].pc = "commit"
        /\ ing[r].pc = "embedding"
        /\ QueryDone(q) /\ qry[q].found >= 1

\* The steps of an ingestion up to and including the upsert.
UpToUpsert == {"validation", "extract", "chunk", "embed", "index"}

\* C16: with the index service present, every document with a metadata row,
\* and every document a listing or a detail lookup showed, has all chunk_count
\* of its chunks in the index; an ingestion that failed at or before the upsert
\* has left no row in the metadata store and no chunk in the index.
C16_UpsertPrecedesCommit ==
    /\ vector_db_service # "absent" =>
          /\ \A doc \in db :
                ChunkIds(doc.document_id, doc.chunk_count) \subseteq StoredIds(doc.document_id)
          /\ \A i \in 1..Len(listing.items) :
                ChunkIds(listing.items[i].document_id, listing.items[i].chunk_count)
                    \subseteq StoredIds(listing.items[i].document_id)
          /\ detail.found =>
                ChunkIds(detail.document_id, detail.chunk_count)
                    \subseteq StoredIds(detail.document_id)
    /\ \A p \in Uploads :
          (UploadDone(p) /\ ing[p].error.step \in UpToUpsert) =>
              (Rows(p) = {} /\ Stored(p) = {})

\* With the index ready: a listing shows a committed two-chunk document, one
\* upload failed at its upsert, and the other document was looked up.
C16_Witness ==
    /\ vector_db_service = "ready"
    /\ \E p, r \in Uploads :
          /\ Rows(p) # {} /\ Cardinality(Stored(p)) = 2
          /\ UploadDone(r) /\ ing[r].error.step = "index"
          /\ Len(listing.items) = 1 /\ listing.items[1].document_id = p
          /\ detail.found /\ detail.document_id = p

=============================================================================
